---- MODULE Spec2Model ----
(***************************************************************************)
(* Model of tensorflow_hub/tools/module_search/utils.py: the pairwise      *)
(* distance computation (compute_distance_matrix,                          *)
(* compute_distance_matrix_loo) and the k-nearest-neighbour error rate     *)
(* (knn_errorrate, knn_errorrate_loo).                                     *)
(*                                                                         *)
(* Conventions.                                                            *)
(*  - A vector is a sequence, a matrix a sequence of rows.  Python indices *)
(*    are 0-based: At(s, i) reads s[i].  Index VALUES kept in the state    *)
(*    (indices) are the 0-based numbers the code handles.                  *)
(*  - A floating point number is a record [k, a, b]:                       *)
(*      k = "fin": the integer a (b = 0);                                  *)
(*      k = "cos": the real 1 - a / sqrt(b), b > 0, kept symbolically;     *)
(*      k = "inf": +infinity;   k = "nan": not-a-number.                   *)
(*  - A call ends in an outcome: a value, or an error naming the Python    *)
(*    exception that is raised.                                            *)
(***************************************************************************)
EXTENDS Integers, Sequences, FiniteSets

VARIABLES gpu, pc, op, x_train, x_test, x, measure, d, y_train, y_test, k,
          indices, pred, result

vars == <<gpu, pc, op, x_train, x_test, x, measure, d, y_train, y_test, k,
          indices, pred, result>>

(***************************************************************************)
(* Bounds of the model.                                                    *)
(***************************************************************************)
MaxVal == 1        \* feature values are 0..MaxVal
MaxDim == 2        \* embedding dimension D is 1..MaxDim
MaxRows == 2       \* rows of x_train and of x_test (paired mode)
MaxLooRows == 3    \* rows of x (leave-one-out mode)
MaxLabel == 1      \* labels are 0..MaxLabel
MaxDist == 1       \* finite entries of a free-standing distance matrix
MaxTestRows == 2   \* rows M of a free-standing distance matrix
MaxTrainCols == 3  \* columns N of a free-standing distance matrix

(***************************************************************************)
(* Floating point values.                                                  *)
(***************************************************************************)
MantissaBits == 24

Fin(n) == [k |-> "fin", a |-> n, b |-> 0]
Cos(n, q) == [k |-> "cos", a |-> n, b |-> q]
Inf == [k |-> "inf", a |-> 0, b |-> 0]
NaN == [k |-> "nan", a |-> 0, b |-> 0]

Abs(n) == IF n < 0 THEN -n ELSE n

RECURSIVE Pow2(_)
Pow2(e) == IF e = 0 THEN 1 ELSE 2 * Pow2(e - 1)

RECURSIVE UlpExp(_, _)
\* The least e with m < 2^(MantissaBits + e).
UlpExp(m, e) == IF m < Pow2(MantissaBits + e) THEN e ELSE UlpExp(m, e + 1)

\* np.float32 of an integer: round to a 24-bit significand, ties to even.
Float32(n) ==
  LET m == Abs(n) IN
  IF m <= Pow2(MantissaBits) THEN n
  ELSE LET ulp == Pow2(UlpExp(m, 0))
           q == m \div ulp
           r == m % ulp
           up == (2 * r > ulp) \/ (2 * r = ulp /\ q % 2 = 1)
           res == (q + (IF up THEN 1 ELSE 0)) * ulp
       IN IF n < 0 THEN -res ELSE res

\* tf.float64 of an integer of the model: every integer below 2^53 is exact.
Float64(n) == n

\* Rounding to the dtype the arrays were converted to.
Round(dtype, n) == IF dtype = "float32" THEN Float32(n) ELSE Float64(n)

\* Python's s[i] for 0 <= i < len(s).
At(s, i) == s[i + 1]

\* p / sqrt(b) < q / sqrt(c) for b, c > 0, without leaving the integers.
RatioLess(p, b, q, c) ==
  CASE p < 0 /\ q >= 0 -> TRUE
    [] p >= 0 /\ q < 0 -> FALSE
    [] p >= 0 /\ q >= 0 -> p * p * c < q * q * b
    [] OTHER -> p * p * c > q * q * b

\* numpy's sort order on floats: a < b, with every NaN after every number.
FloatLess(u, v) ==
  CASE u.k = "nan" -> FALSE
    [] v.k = "nan" -> TRUE
    [] u.k = "inf" -> FALSE
    [] v.k = "inf" -> TRUE
    [] u.k = "fin" /\ v.k = "fin" -> u.a < v.a
    [] u.k = "cos" /\ v.k = "cos" -> RatioLess(v.a, v.b, u.a, u.b)
    [] OTHER -> FALSE

(***************************************************************************)
(* Outcomes.                                                               *)
(***************************************************************************)
NoMatrix == << >>
Raise(exc) == [kind |-> "error", exc |-> exc, num |-> 0, den |-> 0]
Returned == [kind |-> "value", exc |-> "", num |-> 0, den |-> 0]
\* float(cnt) / rows: the quotient cnt / rows correctly rounded to a double,
\* kept as the fraction num / den (rounding is monotone and exact at 0 and 1).
Rate(cnt, rows) == [kind |-> "value", exc |-> "", num |-> cnt, den |-> rows]
NoResult == [kind |-> "none", exc |-> "", num |-> 0, den |-> 0]

(***************************************************************************)
(* DistanceEngine.                                                         *)
(***************************************************************************)
RECURSIVE DotFrom(_, _, _, _)
\* One entry of a matrix product: products accumulated in dtype.
DotFrom(u, v, c, dtype) ==
  IF c > Len(u) THEN 0
  ELSE Round(dtype, Round(dtype, u[c] * v[c]) + DotFrom(u, v, c + 1, dtype))

\* np.matmul(p, np.transpose(q)) / tf.matmul(p, tf.transpose(q))
matmul_transpose(p, q, dtype) ==
  [i \in 1..Len(p) |-> [j \in 1..Len(q) |-> DotFrom(p[i], q[j], 1, dtype)]]

RECURSIVE SumFrom(_, _, _)
\* The sum of the entries c.. of u, accumulated in dtype.
SumFrom(u, c, dtype) ==
  IF c > Len(u) THEN 0 ELSE Round(dtype, u[c] + SumFrom(u, c + 1, dtype))

\* The row sums without np.square.
sum_not_squared(m, dtype) == [i \in 1..Len(m) |-> SumFrom(m[i], 1, dtype)]

\* np.sum(np.square(m), axis=1) / tf.reduce_sum(tf.math.square(m), 1)
sum_square(m, dtype) == [i \in 1..Len(m) |-> DotFrom(m[i], m[i], 1, dtype)]

\* The loop body multiplying by 2 instead of -2.
squared_l2_row_plus2(x_xt, x_test_2, x_train_2, i) ==
  [j \in 1..Len(x_xt[i]) |->
     Float32(Float32(Float32(x_xt[i][j] * 2) + x_test_2[i]) + x_train_2[j])]

\* The loop body without its last statement, the addition of x_train_2.
squared_l2_row_no_train_norm(x_xt, x_test_2, x_train_2, i) ==
  [j \in 1..Len(x_xt[i]) |->
     Float32(Float32(x_xt[i][j] * (-2)) + x_test_2[i])]

\* One pass of the loop body of compute_distance_matrix for row i.
squared_l2_row(x_xt, x_test_2, x_train_2, i) ==
  [j \in 1..Len(x_xt[i]) |->
     Float32(Float32(Float32(x_xt[i][j] * (-2)) + x_test_2[i]) + x_train_2[j])]

compute_distance_matrix(xtr, xte, meas, onGpu) ==
  \* tf.convert_to_tensor(., tf.float32) on a GPU, np.float32(.) without
  LET dtype == IF onGpu THEN "float32" ELSE "float32" IN
  IF meas = "squared_l2"
  THEN LET x_xt == matmul_transpose(xte, xtr, dtype)
           x_train_2 == sum_square(xtr, dtype)
           x_test_2 == sum_square(xte, dtype)
       IN [out |-> Returned,
           d |-> [i \in 1..Len(x_xt) |->
                    [j \in 1..Len(x_xt[i]) |->
                       Fin(squared_l2_row(x_xt, x_test_2, x_train_2, i)[j])]]]
  ELSE [out |-> Raise("NotImplementedError"), d |-> NoMatrix]

\* The loop body without its last statement, d[i, i] = float("inf").
loo_row_finite_diagonal(x_xt, diag, i, dtype) ==
  [j \in 1..Len(x_xt[i]) |->
     Fin(Round(dtype,
       Round(dtype, Round(dtype, x_xt[i][j] * (-2)) + x_xt[i][i]) + diag[j]))]

\* One pass of the loop body of compute_distance_matrix_loo for row i; the
\* additions are array operations in the dtype of d.
loo_row(x_xt, diag, i, dtype) ==
  [j \in 1..Len(x_xt[i]) |->
     IF j = i THEN Inf
     ELSE Fin(Round(dtype,
            Round(dtype, Round(dtype, x_xt[i][j] * (-2)) + x_xt[i][i]) + diag[j]))]

\* 1 - d[i][j] / (sqrt(d[i][i]) * sqrt(d[j][j])), kept exact.  A zero product
\* means row i or row j of x is the zero vector, so d[i][j] = 0 and numpy
\* divides 0 by 0: NaN.
cosine_entry(dm, i, j) ==
  IF dm[i][i] * dm[j][j] = 0 THEN NaN ELSE Cos(dm[i][j], dm[i][i] * dm[j][j])

\* The diagonal left as computed.
fill_diagonal_skipped(m) == m

\* np.fill_diagonal(m, float("inf"))
fill_diagonal_inf(m) ==
  [i \in 1..Len(m) |-> [j \in 1..Len(m[i]) |-> IF j = i THEN Inf ELSE m[i][j]]]

\* compute_distance_matrix_loo without its "cosine" branch.
compute_distance_matrix_loo_no_cosine(xs, meas, onGpu) ==
  LET dtype == IF onGpu THEN "float64" ELSE "float32" IN
  IF meas = "squared_l2"
  THEN LET x_xt == matmul_transpose(xs, xs, dtype)
           diag == [i \in 1..Len(x_xt) |-> x_xt[i][i]]
       IN [out |-> Returned,
           d |-> [i \in 1..Len(x_xt) |-> loo_row(x_xt, diag, i, dtype)]]
  ELSE [out |-> Raise("NotImplementedError"), d |-> NoMatrix]

compute_distance_matrix_loo(xs, meas, onGpu) ==
  LET dtype == IF onGpu THEN "float64" ELSE "float32" IN
  CASE meas = "squared_l2" ->
         LET x_xt == matmul_transpose(xs, xs, dtype)
             diag == [i \in 1..Len(x_xt) |-> x_xt[i][i]]
         IN [out |-> Returned,
             d |-> [i \in 1..Len(x_xt) |-> loo_row(x_xt, diag, i, dtype)]]
    [] meas = "cosine" ->
         LET dm == matmul_transpose(xs, xs, dtype)
         IN [out |-> Returned,
             d |-> fill_diagonal_inf(
                     [i \in 1..Len(dm) |->
                        [j \in 1..Len(dm) |-> cosine_entry(dm, i, j)]])]
    [] OTHER -> [out |-> Raise("NotImplementedError"), d |-> NoMatrix]

(***************************************************************************)
(* KnnEvaluator: the numpy primitives.                                     *)
(***************************************************************************)
Range(s) == {s[i] : i \in 1..Len(s)}

Min(m, n) == IF m < n THEN m ELSE n
Max(m, n) == IF m > n THEN m ELSE n

\* The least element of a non-empty set of integers.
Least(S) == CHOOSE m \in S : \A n \in S : m <= n

\* np.argmax in the place of np.argmin: the first position holding the maximum.
argmin_as_argmax(row) ==
  Least({j \in 1..Len(row) : \A l \in 1..Len(row) : ~FloatLess(row[j], row[l])}) - 1

\* np.argmin of one row: the first NaN when there is one, else the first
\* position holding the minimum.
argmin(row) ==
  LET nans == {j \in 1..Len(row) : row[j].k = "nan"}
      mins == {j \in 1..Len(row) : \A l \in 1..Len(row) : ~FloatLess(row[l], row[j])}
  IN (IF nans # {} THEN Least(nans) ELSE Least(mins)) - 1

\* The permutations of 0..n-1, as sequences.
Permutations0(n) ==
  {p \in [1..n -> 0..(n - 1)] : \A a, b \in 1..n : p[a] = p[b] => a = b}

\* np.argpartition of one row at position kth (0 <= kth < len(row)): any
\* permutation that puts the element of sorted rank kth at position kth, no
\* larger element before it and no smaller one after it.  Which one is left
\* to the selection algorithm.
argpartition(row, kth) ==
  {p \in Permutations0(Len(row)) :
     /\ \A a \in 1..kth : ~FloatLess(At(row, p[kth + 1]), At(row, p[a]))
     /\ \A b \in (kth + 2)..Len(row) : ~FloatLess(At(row, p[b]), At(row, p[kth + 1]))}

\* Python's s[:n]
SliceTo(s, n) ==
  SubSeq(s, 1, IF n >= 0 THEN Min(n, Len(s)) ELSE Max(Len(s) + n, 0))

RECURSIVE SortedSeq(_)
\* The elements of a finite set of integers in ascending order.
SortedSeq(S) ==
  IF S = {} THEN << >> ELSE <<Least(S)>> \o SortedSeq(S \ {Least(S)})

\* np.unique(labels, return_counts=True)
unique(labels) ==
  LET keys == SortedSeq(Range(labels))
  IN [keys |-> keys,
      counts |-> [a \in 1..Len(keys) |->
                    Cardinality({j \in 1..Len(labels) : labels[j] = keys[a]})]]

\* The last position holding the maximum, not the first.
argmax_last(counts) ==
  Max(0, Cardinality({a \in 1..Len(counts) : \E b \in a..Len(counts) :
                        \A c \in 1..Len(counts) : counts[c] <= counts[b]}) - 1)

\* np.argmax of a non-empty vector: the first position holding the maximum.
argmax(counts) ==
  Least({a \in 1..Len(counts) : \A b \in 1..Len(counts) : counts[b] <= counts[a]}) - 1

\* labels = y[indices[i, :k]]; keys, counts = np.unique(...);
\* maxkey = keys[np.argmax(counts)], for one row's permutation p.
max_vote(p, y, kk) ==
  LET sel == SliceTo(p, kk)
      labels == [a \in 1..Len(sel) |-> At(y, sel[a])]
      u == unique(labels)
  IN [sel |-> Range(sel), maxkey |-> At(u.keys, argmax(u.counts))]

RECURSIVE count_matches(_, _, _)
\* The loop with == in the place of !=.
count_matches(truth, predicted, i) ==
  IF i > Len(predicted) THEN 0
  ELSE (IF truth[i] = predicted[i] THEN 1 ELSE 0)
       + count_matches(truth, predicted, i + 1)

RECURSIVE count_errors(_, _, _)
\* The loop counting the rows whose predicted label is not the true one.
count_errors(truth, predicted, i) ==
  IF i > Len(predicted) THEN 0
  ELSE (IF truth[i] # predicted[i] THEN 1 ELSE 0)
       + count_errors(truth, predicted, i + 1)

RECURSIVE RowProducts(_)
\* All ways to pick one element per row from a sequence of sets.
RowProducts(sets) ==
  IF sets = << >> THEN {<< >>}
  ELSE {<<h>> \o t : h \in Head(sets), t \in RowProducts(Tail(sets))}

KnnOutcome(ind, prd, res) == [indices |-> ind, pred |-> prd, result |-> res]

(***************************************************************************)
(* KnnEvaluator: knn_errorrate.  Each operator yields the set of outcomes  *)
(* the call can have.                                                      *)
(***************************************************************************)
\* The k == 1 branch.
knn_errorrate_k1(dm, ytr, yte) ==
  LET ind == [i \in 1..Len(dm) |-> argmin(dm[i])]
      prd == [i \in 1..Len(dm) |-> At(ytr, ind[i])]
  IN {KnnOutcome([i \in 1..Len(dm) |-> {ind[i]}], prd,
                 Rate(count_errors(yte, prd, 1), Len(ind)))}

\* The code after the k == 1 branch.
knn_errorrate_general(dm, ytr, yte, kk) ==
  LET n == Len(dm[1])
      kth == kk - 1
  IN IF kth < -n \/ kth >= n
     THEN \* np.argpartition: "kth out of bounds"
          {KnnOutcome(<< >>, << >>, Raise("ValueError"))}
     ELSE LET pos == IF kth < 0 THEN kth + n ELSE kth
              votes == [i \in 1..Len(dm) |->
                          {max_vote(p, ytr, kk) : p \in argpartition(dm[i], pos)}]
          IN IF SliceTo(dm[1], kk) = << >>
             THEN \* np.argmax of an empty counts vector, at the first row
                  {KnnOutcome([i \in 1..Len(dm) |-> {}], << >>, Raise("ValueError"))}
             ELSE {KnnOutcome([i \in 1..Len(dm) |-> v[i].sel],
                              [i \in 1..Len(dm) |-> v[i].maxkey],
                              Rate(count_errors(yte, [i \in 1..Len(dm) |-> v[i].maxkey], 1),
                                   Len(dm))) :
                     v \in RowProducts(votes)}

knn_errorrate(dm, ytr, yte, kk) ==
  IF kk = 1 THEN knn_errorrate_k1(dm, ytr, yte)
  ELSE knn_errorrate_general(dm, ytr, yte, kk)

(***************************************************************************)
(* KnnEvaluator: knn_errorrate_loo, the same code over one label vector.   *)
(***************************************************************************)
\* The k == 1 branch.
knn_errorrate_loo_k1(dm, y) ==
  LET ind == [i \in 1..Len(dm) |-> argmin(dm[i])]
      prd == [i \in 1..Len(dm) |-> At(y, ind[i])]
  IN {KnnOutcome([i \in 1..Len(dm) |-> {ind[i]}], prd,
                 Rate(count_errors(y, prd, 1), Len(ind)))}

\* The code after the k == 1 branch.
knn_errorrate_loo_general(dm, y, kk) ==
  LET n == Len(dm[1])
      kth == kk - 1
  IN IF kth < -n \/ kth >= n
     THEN {KnnOutcome(<< >>, << >>, Raise("ValueError"))}
     ELSE LET pos == IF kth < 0 THEN kth + n ELSE kth
              votes == [i \in 1..Len(dm) |->
                          {max_vote(p, y, kk) : p \in argpartition(dm[i], pos)}]
          IN IF SliceTo(dm[1], kk) = << >>
             THEN {KnnOutcome([i \in 1..Len(dm) |-> {}], << >>, Raise("ValueError"))}
             ELSE {KnnOutcome([i \in 1..Len(dm) |-> v[i].sel],
                              [i \in 1..Len(dm) |-> v[i].maxkey],
                              Rate(count_errors(y, [i \in 1..Len(dm) |-> v[i].maxkey], 1),
                                   Len(dm))) :
                     v \in RowProducts(votes)}

knn_errorrate_loo(dm, y, kk) ==
  IF kk = 1 THEN knn_errorrate_loo_k1(dm, y)
  ELSE knn_errorrate_loo_general(dm, y, kk)

(***************************************************************************)
(* Inputs.                                                                 *)
(***************************************************************************)
Measures == {"squared_l2", "cosine", "manhattan"}
Labels == 0..MaxLabel

\* The n x dim feature matrices.
FeatureMatrices(n, dim) == [1..n -> [1..dim -> 0..MaxVal]]

\* The spec's worked example.
ScenarioTrain == <<<<0, 0>>, <<10, 10>>>>
ScenarioTest == <<<<0, 1>>, <<9, 9>>>>

\* Neighbour counts tried on a matrix with n columns: the valid 1..n, and
\* 0, the negative ones and n + 1.
NeighbourCounts(n) == (-(n + 1))..(n + 1)

DistValues == {Fin(v) : v \in 0..MaxDist} \cup {Inf}

\* The m x n distance matrices a caller may hand in (paired form).
DistanceMatrices(m, n) == [1..m -> [1..n -> DistValues]]

\* The positions of an n x n matrix off its diagonal.
OffDiagonal(n) == {ij \in (1..n) \X (1..n) : ij[1] # ij[2]}

\* The n x n matrix with the diagonal at +infinity and the entries e elsewhere.
LooDistanceMatrix(n, e) ==
  [i \in 1..n |-> [j \in 1..n |-> IF i = j THEN Inf ELSE e[<<i, j>>]]]

(***************************************************************************)
(* The state machine.                                                      *)
(***************************************************************************)
Init ==
  /\ gpu = FALSE
  /\ pc = "start"
  /\ op = "none"
  /\ x_train = << >>
  /\ x_test = << >>
  /\ x = << >>
  /\ measure = ""
  /\ d = NoMatrix
  /\ y_train = << >>
  /\ y_test = << >>
  /\ k = 0
  /\ indices = << >>
  /\ pred = << >>
  /\ result = NoResult

\* A call compute_distance_matrix(xtr, xte, meas).
CallComputeDistanceMatrix(xtr, xte, meas, onGpu) ==
  LET r == compute_distance_matrix(xtr, xte, meas, onGpu)
  IN /\ gpu' = onGpu
     /\ x_train' = xtr
     /\ x_test' = xte
     /\ measure' = meas
     /\ d' = r.d
     /\ result' = r.out
     /\ pc' = IF r.out.kind = "value" THEN "paired" ELSE "failed"
     /\ op' = "compute_distance_matrix"
     /\ UNCHANGED <<x, y_train, y_test, k, indices, pred>>

\* compute_distance_matrix on train and test matrices of one dimension D.
ComputeDistanceMatrix ==
  /\ pc = "start"
  /\ \E dim \in 1..MaxDim, n \in 1..MaxRows, m \in 1..MaxRows :
       \E xtr \in FeatureMatrices(n, dim), xte \in FeatureMatrices(m, dim),
          meas \in Measures, onGpu \in BOOLEAN :
         CallComputeDistanceMatrix(xtr, xte, meas, onGpu)

\* compute_distance_matrix on the spec's worked example.
ComputeDistanceMatrixScenario ==
  /\ pc = "start"
  /\ \E onGpu \in BOOLEAN :
       CallComputeDistanceMatrix(ScenarioTrain, ScenarioTest, "squared_l2", onGpu)

\* A call compute_distance_matrix_loo(x, measure).
ComputeDistanceMatrixLoo ==
  /\ pc = "start"
  /\ \E dim \in 1..MaxDim, n \in 1..MaxLooRows :
       \E xs \in FeatureMatrices(n, dim), meas \in Measures, onGpu \in BOOLEAN :
         LET r == compute_distance_matrix_loo(xs, meas, onGpu)
         IN /\ gpu' = onGpu
            /\ x' = xs
            /\ measure' = meas
            /\ d' = r.d
            /\ result' = r.out
            /\ pc' = IF r.out.kind = "value" THEN "loo" ELSE "failed"
  /\ op' = "compute_distance_matrix_loo"
  /\ UNCHANGED <<x_train, x_test, y_train, y_test, k, indices, pred>>

\* The state after a knn call with outcome o.
KnnDone(name, ytr, yte, kk, o) ==
  /\ op' = name
  /\ y_train' = ytr
  /\ y_test' = yte
  /\ k' = kk
  /\ indices' = o.indices
  /\ pred' = o.pred
  /\ result' = o.result
  /\ pc' = "done"
  /\ UNCHANGED <<gpu, x_train, x_test, x, measure, d>>

\* A call knn_errorrate(d, y_train, y_test, k) on the paired matrix at hand.
KnnErrorrate ==
  /\ pc = "paired"
  /\ \E ytr \in [1..Len(d[1]) -> Labels], yte \in [1..Len(d) -> Labels],
        kk \in NeighbourCounts(Len(d[1])) :
       \E o \in knn_errorrate(d, ytr, yte, kk) :
         KnnDone("knn_errorrate", ytr, yte, kk, o)

\* A call knn_errorrate_loo(d, y, k) on the leave-one-out matrix at hand.
KnnErrorrateLoo ==
  /\ pc = "loo"
  /\ \E y \in [1..Len(d) -> Labels], kk \in NeighbourCounts(Len(d[1])) :
       \E o \in knn_errorrate_loo(d, y, kk) :
         KnnDone("knn_errorrate_loo", y, y, kk, o)

Next ==
  \/ ComputeDistanceMatrix
  \/ ComputeDistanceMatrixScenario
  \/ ComputeDistanceMatrixLoo
  \/ KnnErrorrate
  \/ KnnErrorrateLoo

\* The pipeline: a distance matrix is computed, then evaluated.
Spec == Init /\ [][Next]_vars

(***************************************************************************)
(* The evaluator on its own: the caller hands in any distance matrix, and  *)
(* k = 1 may be routed through the general path.                           *)
(***************************************************************************)
\* The caller holds a paired distance matrix.
GivenDistanceMatrix ==
  /\ pc = "start"
  /\ \E m \in 1..MaxTestRows, n \in 1..MaxTrainCols : d' \in DistanceMatrices(m, n)
  /\ pc' = "paired"
  /\ op' = "given"
  /\ UNCHANGED <<gpu, x_train, x_test, x, measure, y_train, y_test, k,
                 indices, pred, result>>

\* The caller holds a leave-one-out distance matrix.
GivenLooDistanceMatrix ==
  /\ pc = "start"
  /\ \E n \in 1..MaxTrainCols :
       \E e \in [OffDiagonal(n) -> DistValues] : d' = LooDistanceMatrix(n, e)
  /\ pc' = "loo"
  /\ op' = "given"
  /\ UNCHANGED <<gpu, x_train, x_test, x, measure, y_train, y_test, k,
                 indices, pred, result>>

\* k = 1 routed through the code after the k == 1 branch of knn_errorrate.
GeneralPathK1 ==
  /\ pc = "paired"
  /\ \E ytr \in [1..Len(d[1]) -> Labels], yte \in [1..Len(d) -> Labels] :
       \E o \in knn_errorrate_general(d, ytr, yte, 1) :
         KnnDone("knn_errorrate_general", ytr, yte, 1, o)

\* k = 1 routed through the code after the k == 1 branch of knn_errorrate_loo.
GeneralPathLooK1 ==
  /\ pc = "loo"
  /\ \E y \in [1..Len(d) -> Labels] :
       \E o \in knn_errorrate_loo_general(d, y, 1) :
         KnnDone("knn_errorrate_loo_general", y, y, 1, o)

NextKnn ==
  \/ GivenDistanceMatrix
  \/ GivenLooDistanceMatrix
  \/ KnnErrorrate
  \/ KnnErrorrateLoo
  \/ GeneralPathK1
  \/ GeneralPathLooK1

SpecKnn == Init /\ [][NextKnn]_vars

(***************************************************************************)
(* Properties.                                                             *)
(***************************************************************************)
RECURSIVE SquaredDistance(_, _, _)
\* The sum over the columns c.. of (u[c] - v[c])^2.
SquaredDistance(u, v, c) ==
  IF c > Len(u) THEN 0
  ELSE (u[c] - v[c]) * (u[c] - v[c]) + SquaredDistance(u, v, c + 1)

Rows(m) == 1..Len(m)
Cols(m) == 1..Len(m[1])
KnnOps == {"knn_errorrate", "knn_errorrate_loo"}
HasNaN(m) == \E i \in Rows(m) : \E j \in 1..Len(m[i]) : m[i][j].k = "nan"

\* C1: compute_distance_matrix(train, test, "squared_l2") returns an M x N
\* matrix whose entry (i, j) is the squared Euclidean distance between test
\* row i and train row j; with train = test its diagonal is 0.
C1_PairedMatrixIsSquaredL2 ==
  (op = "compute_distance_matrix" /\ measure = "squared_l2") =>
    /\ result.kind = "value"
    /\ Len(d) = Len(x_test)
    /\ \A i \in Rows(d) :
         /\ Len(d[i]) = Len(x_train)
         /\ \A j \in 1..Len(d[i]) :
              d[i][j] = Fin(SquaredDistance(x_test[i], x_train[j], 1))
    /\ (x_train = x_test => \A i \in Rows(d) : d[i][i] = Fin(0))

\* C1 witness: a 1 x 2 result with a non-zero distance.
C1_Witness ==
  /\ op = "compute_distance_matrix" /\ measure = "squared_l2"
  /\ Len(x_test) = 1 /\ Len(x_train) = 2
  /\ d = <<<<Fin(2), Fin(1)>>>>

\* C2 (as stated): on the worked example the distance matrix is
\* [[1,162],[145,2]], the nearest neighbours are [0,1], the predicted labels
\* [0,1] and the error rate 0.0.
C2_ScenarioAsStated ==
  (/\ op = "knn_errorrate"
   /\ x_train = ScenarioTrain /\ x_test = ScenarioTest
   /\ y_train = <<0, 1>> /\ y_test = <<0, 1>> /\ k = 1) =>
    /\ d = <<<<Fin(1), Fin(162)>>, <<Fin(145), Fin(2)>>>>
    /\ indices = <<{0}, {1}>>
    /\ pred = <<0, 1>>
    /\ result = Rate(0, 2)

\* C2 (amended): on the worked example the distance matrix is
\* [[1,181],[162,2]], the nearest neighbours are [0,1], the predicted labels
\* [0,1] and the error rate 0.0.
C2_ScenarioAmended ==
  (/\ op = "knn_errorrate"
   /\ x_train = ScenarioTrain /\ x_test = ScenarioTest
   /\ y_train = <<0, 1>> /\ y_test = <<0, 1>> /\ k = 1) =>
    /\ d = <<<<Fin(1), Fin(181)>>, <<Fin(162), Fin(2)>>>>
    /\ indices = <<{0}, {1}>>
    /\ pred = <<0, 1>>
    /\ result = Rate(0, 2)

\* C2 witness: the worked example has been evaluated.
C2_Witness ==
  /\ op = "knn_errorrate" /\ pc = "done"
  /\ x_train = ScenarioTrain /\ x_test = ScenarioTest
  /\ y_train = <<0, 1>> /\ y_test = <<0, 1>> /\ k = 1
  /\ result.kind = "value"

\* C3: compute_distance_matrix_loo(x, "squared_l2") returns an N x N matrix
\* with +infinity on the diagonal and, off the diagonal,
\* d[i][j] = d[j][i] = the squared Euclidean distance of rows i and j of x.
C3_LooMatrixIsSymmetricWithInfDiagonal ==
  (op = "compute_distance_matrix_loo" /\ measure = "squared_l2") =>
    /\ result.kind = "value"
    /\ Len(d) = Len(x)
    /\ \A i \in Rows(d) :
         /\ Len(d[i]) = Len(x)
         /\ d[i][i] = Inf
         /\ \A j \in Rows(d) \ {i} :
              /\ d[i][j] = d[j][i]
              /\ d[i][j] = Fin(SquaredDistance(x[i], x[j], 1))

\* C3 witness: a 3 x 3 result with two different off-diagonal distances.
C3_Witness ==
  /\ op = "compute_distance_matrix_loo" /\ measure = "squared_l2"
  /\ Len(x) = 3
  /\ d[1][2] = Fin(1) /\ d[1][3] = Fin(2) /\ d[2][2] = Inf

\* The rows of the leave-one-out evaluation whose own index was selected.
SelfSelected == {i \in Rows(d) : (i - 1) \in indices[i]}

\* C4 (as stated): in a leave-one-out evaluation of N >= 2 samples with
\* 1 <= k <= N, the k columns voted on for row i never include i.
C4_SelfNeverSelectedAsStated ==
  (/\ op = "knn_errorrate_loo" /\ Len(d) >= 2
   /\ 1 <= k /\ k <= Len(d)) =>
    (result.kind = "value" /\ SelfSelected = {})

\* C4 (amended): the same for 1 <= k <= N - 1, and for k >= 2 provided the
\* distance matrix holds no NaN.
C4_SelfNeverSelected ==
  (/\ op = "knn_errorrate_loo" /\ Len(d) >= 2
   /\ 1 <= k /\ k <= Len(d) - 1
   /\ (k = 1 \/ ~HasNaN(d))) =>
    (result.kind = "value" /\ SelfSelected = {})

\* C4 witness: two neighbours selected among three samples, none of them
\* the sample itself.
C4_Witness ==
  /\ op = "knn_errorrate_loo" /\ Len(d) = 3 /\ k = 2
  /\ result.kind = "value" /\ SelfSelected = {}
  /\ indices[1] = {1, 2}

\* C5: for 1 <= k <= N, knn_errorrate and knn_errorrate_loo return the
\* number of rows whose voted label differs from the true label divided by
\* the number of rows of d, a value in [0, 1].
C5_RateIsMisclassifiedFraction ==
  (op \in KnnOps /\ 1 <= k /\ k <= Len(d[1])) =>
    /\ result.kind = "value"
    /\ Len(pred) = Len(d)
    /\ result.den = Len(d)
    /\ result.num = Cardinality({i \in Rows(d) : pred[i] # y_test[i]})
    /\ 0 <= result.num /\ result.num <= result.den

\* C5 witness: one of two rows misclassified by a vote among two neighbours.
C5_Witness ==
  /\ op = "knn_errorrate" /\ k = 2
  /\ result = Rate(1, 2)
  /\ pred[1] = y_test[1] /\ pred[2] # y_test[2]

\* C6: for k < 1 or k > N the knn operations end in an error and never
\* return an error rate.  (The claim adds that the error is raised before any
\* neighbour selection; the code fails already without that part.)
C6_InvalidKRaised ==
  (op \in KnnOps /\ (k < 1 \/ k > Len(d[1]))) => result.kind = "error"

\* C7: compute_distance_matrix raises NotImplementedError, and returns no
\* matrix, exactly for the measures other than "squared_l2";
\* compute_distance_matrix_loo exactly for those other than "squared_l2" and
\* "cosine".
C7_UnsupportedMeasure ==
  /\ op = "compute_distance_matrix" =>
       IF measure = "squared_l2"
       THEN result.kind = "value" /\ d # NoMatrix
       ELSE result = Raise("NotImplementedError") /\ d = NoMatrix /\ pc = "failed"
  /\ op = "compute_distance_matrix_loo" =>
       IF measure \in {"squared_l2", "cosine"}
       THEN result.kind = "value" /\ d # NoMatrix
       ELSE result = Raise("NotImplementedError") /\ d = NoMatrix /\ pc = "failed"

\* C7 witness: the leave-one-out engine accepted "cosine".
C7_Witness ==
  /\ op = "compute_distance_matrix_loo" /\ measure = "cosine"
  /\ result.kind = "value" /\ Len(d) = 2

\* The paired evaluation of a sample set against itself with k = 1.
SelfEvaluation ==
  /\ op = "knn_errorrate" /\ measure = "squared_l2"
  /\ x_train = x_test /\ y_train = y_test /\ k = 1

\* C8 (as stated): knn_errorrate(d, y, y, 1) on d =
\* compute_distance_matrix(a, a, "squared_l2") is 0 for every a and y.
C8_SelfEvaluationIsZeroAsStated ==
  SelfEvaluation => (result.kind = "value" /\ result.num = 0)

\* C8 (amended): it is 0 whenever equal rows of a carry equal labels.
C8_SelfEvaluationIsZero ==
  (/\ SelfEvaluation
   /\ \A i, j \in Rows(x_train) :
        x_train[i] = x_train[j] => y_train[i] = y_train[j]) =>
    (result.kind = "value" /\ result.num = 0)

\* C8 witness: two different points with different labels, evaluated
\* against themselves.
C8_Witness ==
  /\ SelfEvaluation /\ pc = "done"
  /\ Len(x_train) = 2 /\ x_train[1] # x_train[2]
  /\ y_train = <<1, 0>>

\* The result of the k == 1 branch on the inputs of the state.
SpecialCaseResults ==
  IF op = "knn_errorrate_general"
  THEN {o.result : o \in knn_errorrate_k1(d, y_train, y_test)}
  ELSE {o.result : o \in knn_errorrate_loo_k1(d, y_train)}

GeneralOps == {"knn_errorrate_general", "knn_errorrate_loo_general"}

\* The columns of row i that hold the row's minimum.
MinColumns(i) ==
  {j \in Cols(d) : \A l \in Cols(d) : ~FloatLess(d[i][l], d[i][j])}

\* C9 (as stated): the k = 1 branch and the general path run with k = 1
\* return the same error rate on every distance matrix.
C9_K1AgreesWithGeneralPathAsStated ==
  (op \in GeneralOps /\ k = 1) => result \in SpecialCaseResults

\* C9 (amended): they return the same error rate on every NaN-free distance
\* matrix in which the columns holding a row's minimum all carry the same
\* label.
C9_K1AgreesWithGeneralPath ==
  (/\ op \in GeneralOps /\ k = 1
   /\ ~HasNaN(d)
   /\ \A i \in Rows(d) : \A j, l \in MinColumns(i) : y_train[j] = y_train[l]) =>
    result \in SpecialCaseResults

\* C9 witness: the general path picked a tied minimum other than the first,
\* and a row is misclassified.
C9_Witness ==
  /\ op = "knn_errorrate_general" /\ k = 1
  /\ \A i \in Rows(d) : \A j, l \in MinColumns(i) : y_train[j] = y_train[l]
  /\ indices[1] # {argmin(d[1])}
  /\ result.num = 1

\* The votes label l gets from the neighbours selected for row i.
Votes(i, l) == Cardinality({j \in indices[i] : At(y_train, j) = l})

\* C10: with k > 1 the predicted label of every row has the largest vote
\* count among the k selected neighbours, and is the smallest label with
\* that count.
C10_MajorityVoteSmallestLabelOnTies ==
  (op \in KnnOps /\ k > 1 /\ result.kind = "value") =>
    \A i \in Rows(d) :
      /\ Cardinality(indices[i]) = k
      /\ Votes(i, pred[i]) >= 1
      /\ \A l \in Labels :
           /\ Votes(i, l) <= Votes(i, pred[i])
           /\ (Votes(i, l) = Votes(i, pred[i]) => pred[i] <= l)

\* C10 witness: labels 0 and 1 tie with one vote each and 0 is predicted.
C10_Witness ==
  /\ op = "knn_errorrate" /\ k = 2 /\ result.kind = "value"
  /\ Votes(1, 0) = 1 /\ Votes(1, 1) = 1
  /\ pred[1] = 0

====
